---- MODULE Spec2Model ----
(***************************************************************************)
(* A model of the welt.de news scraper (src/scraper.py, src/config.py).    *)
(*                                                                         *)
(* Strings are sequences of tokens.  A URL is a sequence whose first token *)
(* is an origin ("https://www.welt.de"), optionally followed by further    *)
(* host text, then "/" and name tokens, then optionally "?" and a query.   *)
(* An optional value (Python None or a value) is <<>> or <<value>>.        *)
(***************************************************************************)
EXTENDS Integers, Sequences, FiniteSets, TLC

\* ------------------------------------------------------------------ config
BASE_URL == <<"https://www.welt.de">>

REQUEST_DELAY == 2

MAX_RETRIES == 3

\* the category pages visited by a run: the first NumCategories entries of
\* config.CATEGORY_URLS
NumCategories == 2

ALL_CATEGORY_URLS ==
    << BASE_URL \o <<"/", "politik", "/">>,
       BASE_URL \o <<"/", "wirtschaft", "/">>,
       BASE_URL \o <<"/", "sport", "/">>,
       BASE_URL \o <<"/", "kultur", "/">>,
       BASE_URL \o <<"/", "wissenschaft", "/">>,
       BASE_URL \o <<"/">> >>

CATEGORY_URLS == SubSeq(ALL_CATEGORY_URLS, 1, NumCategories)

\* the max_articles argument scrape_all passes to scrape_category
\* (config.MAX_ARTICLES_PER_CATEGORY, scaled down)
MaxArticles == 2

\* ----------------------------------------------------------- string helpers
\* Python `pat in s`
Contains(s, pat) ==
    \E i \in 1..(Len(s) - Len(pat) + 1) : SubSeq(s, i, i + Len(pat) - 1) = pat

\* Python s.startswith(p)
StartsWith(s, p) == Len(s) >= Len(p) /\ SubSeq(s, 1, Len(p)) = p

\* Python s.endswith('/')
EndsWithSlash(s) == Len(s) > 0 /\ s[Len(s)] = "/"

\* index of the first token of s at or after `from` that is in `set`,
\* Len(s) + 1 when there is none
FirstIn(s, from, set) ==
    LET hits == {i \in from..Len(s) : s[i] \in set}
    IN  IF hits = {} THEN Len(s) + 1
        ELSE CHOOSE i \in hits : \A j \in hits : i <= j

\* Python s.split('/'): the pieces between consecutive slashes, the (possibly
\* empty) pieces before the first and after the last slash included
SplitSlash(s) ==
    LET slashes == {k \in 1..Len(s) : s[k] = "/"}
        n == Cardinality(slashes)
        \* position of the k-th slash; 0 and Len(s) + 1 bound the string
        at(k) == IF k = 0 THEN 0
                 ELSE IF k = n + 1 THEN Len(s) + 1
                 ELSE CHOOSE p \in slashes :
                        Cardinality({q \in slashes : q <= p}) = k
    IN  [k \in 1..(n + 1) |-> SubSeq(s, at(k - 1) + 1, at(k) - 1)]

\* Python str.strip() on a token string: leading and trailing blanks removed
RECURSIVE Strip(_)
Strip(s) ==
    IF s = <<>> THEN s
    ELSE IF Head(s) = " " THEN Strip(Tail(s))
    ELSE IF s[Len(s)] = " " THEN Strip(SubSeq(s, 1, Len(s) - 1))
    ELSE s

\* Python sep.join(parts)
RECURSIVE Join(_, _)
Join(sep, parts) ==
    IF parts = <<>> THEN <<>>
    ELSE IF Len(parts) = 1 THEN parts[1]
    ELSE parts[1] \o sep \o Join(sep, Tail(parts))

\* Python truthiness of an optional string: None and "" are falsy
Truthy(opt) == opt # <<>> /\ opt[1] # <<>>

\* ------------------------------------------------------------- URL helpers
\* where the path of an absolute URL starts and ends (urllib.parse.urlparse)
PathStart(url) == FirstIn(url, 1, {"/", "?", "#"})

PathEnd(url) == FirstIn(url, PathStart(url), {"?", "#"})

\* urlparse(url).path
UrlPath(url) == SubSeq(url, PathStart(url), PathEnd(url) - 1)

Origins == {"https://www.welt.de", "https://example.org"}

\* index of the last "/" of the path of url, 0 when the path has none
LastSlash(url) ==
    LET hits == {i \in PathStart(url)..(PathEnd(url) - 1) : url[i] = "/"}
    IN  IF hits = {} THEN 0
        ELSE CHOOSE i \in hits : \A j \in hits : j <= i

\* urllib.parse.urljoin(base, href) for an absolute base
UrlJoin(base, href) ==
    IF href = <<>> THEN base
    ELSE IF href[1] \in Origins THEN href
    ELSE IF href[1] = "/" THEN SubSeq(base, 1, PathStart(base) - 1) \o href
    ELSE IF href[1] \in {"?", "#"} THEN SubSeq(base, 1, PathEnd(base) - 1) \o href
    ELSE IF LastSlash(base) = 0
         THEN SubSeq(base, 1, PathStart(base) - 1) \o <<"/">> \o href
    ELSE SubSeq(base, 1, LastSlash(base)) \o href

\* --------------------------------------------------- extract_article_links
SECTION_PATTERNS ==
    { <<"/", s, "/">> :
        s \in {"article", "politik", "wirtschaft", "sport", "kultur", "wissenschaft"} }

\* the `any(pattern in full_url ...)` test
MatchesPattern(full_url) == \E p \in SECTION_PATTERNS : Contains(full_url, p)

\* a filter that forgets the trailing-slash test
LooksLikeArticleNoTrailingCheck(full_url) ==
    Len(SplitSlash(UrlPath(full_url))) >= 3

\* the `len(path.split('/')) >= 3 and not full_url.endswith('/')` test
LooksLikeArticle(full_url) ==
    Len(SplitSlash(UrlPath(full_url))) >= 3 /\ ~EndsWithSlash(full_url)

\* a filter that forgets the scraped-URL set
OnSiteOnly(full_url, scraped) == StartsWith(full_url, BASE_URL)

\* the `startswith(BASE_URL) and full_url not in self.scraped_urls` test
OnSiteAndNew(full_url, scraped) == StartsWith(full_url, BASE_URL) /\ full_url \notin scraped

\* the three nested tests an anchor target passes before article_links.add
KeepLink(full_url, scraped) ==
    /\ MatchesPattern(full_url)
    /\ OnSiteAndNew(full_url, scraped)
    /\ LooksLikeArticle(full_url)

\* the loop over soup.find_all('a', href=True); anchors is the list of hrefs,
\* links[k] the value of article_links after the first k of them
ExtractArticleLinks(anchors, base_url, scraped) ==
    LET links[k \in 0..Len(anchors)] ==
            IF k = 0 THEN {}
            ELSE links[k - 1] \cup
                 { full_url \in {UrlJoin(base_url, anchors[k])} : KeepLink(full_url, scraped) }
    IN  links[Len(anchors)]

\* ------------------------------------------------- extract_article_content
\* An article page as the extractor sees it: the <h1> and <title> elements
\* (absent, or their raw text), the content container (absent, or the raw
\* texts of its <p> elements), and whether field extraction raises.
NoneVal == <<>>

Some(v) == <<v>>

\* `soup.find('h1') or soup.find('title')`, then get_text(strip=True)
ExtractTitle(page) ==
    LET title_tag == IF page.h1 # NoneVal THEN page.h1 ELSE page.title_el
    IN  IF title_tag # NoneVal THEN Some(Strip(title_tag[1])) ELSE NoneVal

\* the non-empty stripped paragraphs, in order
RECURSIVE TextParts(_)
TextParts(paragraphs) ==
    IF paragraphs = <<>> THEN <<>>
    ELSE LET t == Strip(Head(paragraphs))
         IN  (IF t # <<>> THEN <<t>> ELSE <<>>) \o TextParts(Tail(paragraphs))

\* article_body.find_all('p') joined by a blank line; None without a body,
\* and None when extraction raised before the text was assigned
ExtractText(page) ==
    IF page.raises THEN NoneVal
    ELSE IF page.body # NoneVal
         THEN Some(Join(<<"\n\n">>, TextParts(page.body[1])))
         ELSE NoneVal

\* a validation that looks at the title alone
ValidTitleOnly(title, text) == Truthy(title)

\* the validation `if not article_data['title'] or not article_data['text']`
Valid(title, text) == Truthy(title) /\ Truthy(text)

\* extract_article_content after a successful fetch: the record, or None
ExtractArticleContent(url, page) ==
    LET title == ExtractTitle(page)
        text == ExtractText(page)
    IN  IF page.raises THEN NoneVal
        ELSE IF ~Valid(title, text) THEN NoneVal
        ELSE Some([url |-> url, title |-> title[1], text |-> text[1]])

\* ------------------------------------------------------ small code decisions
\* a retry test that is off by one
ShouldRetryOffByOne(r) == r <= MAX_RETRIES

\* get_page: `if retries < config.MAX_RETRIES`
ShouldRetry(r) == r < MAX_RETRIES

\* a cap test that is off by one
CapReachedOffByOne(c, max_articles) == c > max_articles

\* scrape_category: `if count >= max_articles: break`
CapReached(c, max_articles) == c >= max_articles

\* a loop body that forgets to mark the URL
MarkScrapedNoop(scraped, url) == scraped

\* scrape_category: `self.scraped_urls.add(article_url)`
MarkScraped(scraped, url) == scraped \cup {url}

\* a save that appends before (so regardless of) the write
SaveArticleAlways(arts, article_data, write_ok) == Append(arts, article_data)

\* save_article: the append sits inside the try, after the write
SaveArticle(arts, article_data, write_ok) ==
    IF write_ok THEN Append(arts, article_data) ELSE arts

\* a per-category count that forgets the baseline
ArticlesScrapedNoBaseline(len_articles, before) == len_articles

\* scrape_all: `articles_scraped = len(self.articles) - articles_before`
ArticlesScraped(len_articles, before) == len_articles - before

\* a category loop that stops one short
HasNextCategorySkipLast(k) == k < Len(CATEGORY_URLS) - 1

\* scrape_all: `for category_url in config.CATEGORY_URLS`
HasNextCategory(k) == k < Len(CATEGORY_URLS)

\* --------------------------------------------------------- the environment
\* hrefs a category page may carry
hrefRoot == <<"/", "politik", "/", "a1">>

hrefAbs == BASE_URL \o <<"/", "sport", "/", "a2">>

hrefRel == <<"a3">>

hrefListing == BASE_URL \o <<"/", "sport", "/">>

hrefOffsite == <<"https://example.org", "/", "politik", "/", "a4">>

\* the anchor lists a fetched category page may hold
CategoryPages ==
    { <<>>,
      <<hrefRoot>>,
      <<hrefListing, hrefRoot, hrefAbs>>,
      <<hrefRoot, hrefOffsite, hrefRel, hrefAbs, hrefRoot>> }

PageOf(h1, title_el, body, raises) ==
    [h1 |-> h1, title_el |-> title_el, body |-> body, raises |-> raises]

\* the article pages a fetch may return
ArticlePages ==
    { PageOf(Some(<<"Title">>), NoneVal, Some(<< <<"Hello">>, <<" ">>, <<"World">> >>), FALSE),
      PageOf(NoneVal, Some(<<" ", "Titel">>), Some(<< <<"Hallo">> >>), FALSE),
      PageOf(Some(<<"Title">>), NoneVal, Some(<<>>), FALSE),
      PageOf(Some(<<"Title">>), NoneVal, NoneVal, FALSE),
      PageOf(NoneVal, NoneVal, Some(<< <<"Hello">> >>), FALSE),
      PageOf(Some(<<" ">>), Some(<<"Title">>), Some(<< <<"Hello">> >>), FALSE),
      PageOf(Some(<<"Title">>), NoneVal, Some(<< <<"Hello">> >>), TRUE) }

\* ------------------------------------------------------------------- state
VARIABLES
    pc,              \* position of the single thread of control
    i,               \* index of the category being scraped (0 before the loop)
    scraped_urls,    \* self.scraped_urls
    articles,        \* self.articles
    files,           \* URLs whose individual JSON file exists in DATA_DIR
    combined,        \* content of COMBINED_OUTPUT: NoneVal or Some(list)
    total_articles,  \* scrape_all local
    articles_before, \* scrape_all local
    count,           \* scrape_category local (0 outside scrape_category)
    article_links,   \* scrape_category local: the set extract_article_links returned
    todo,            \* candidates the for-loop has not yet iterated
    article_url,     \* loop variable: NoneVal or Some(url)
    soup,            \* parsed category page: NoneVal or Some(anchor list)
    page,            \* parsed article page: NoneVal or Some(page)
    article_data,    \* NoneVal or Some(record)
    caller,          \* who called get_page: "category" or "article"
    retries,         \* get_page argument
    trace,           \* events of the current get_page call
    returned,        \* get_page: "idle" outside it, "running", then "ok" or "none"
    write_ok,        \* outcome of the last individual-file write: NoneVal or Some(bool)
    slept,           \* seconds slept since the last GET
    requested,       \* a GET has been issued before
    attempts,        \* number of extraction attempts started, per article URL
    written,         \* records whose individual-file write succeeded, in order
    visited,         \* category URLs in the order scrape_category was called
    saveAllCalls,    \* calls of save_all_articles
    skips,           \* times the `article_url in self.scraped_urls` branch was taken
    result           \* return value of scrape_all: NoneVal or Some(n)

vars == << pc, i, scraped_urls, articles, files, combined, total_articles,
           articles_before, count, article_links, todo, article_url, soup, page,
           article_data, caller, retries, trace, returned, write_ok, slept,
           requested, attempts, written, visited, saveAllCalls, skips, result >>

GetEvent(ok) == [ev |-> "get", ok |-> ok, secs |-> 0]

SleepEvent(secs) == [ev |-> "sleep", ok |-> FALSE, secs |-> secs]

\* WeltScraper.__init__, before scrape_all is called
Init ==
    /\ pc = "start"
    /\ i = 0
    /\ scraped_urls = {}
    /\ articles = <<>>
    /\ files = {}
    /\ combined = NoneVal
    /\ total_articles = 0
    /\ articles_before = 0
    /\ count = 0
    /\ article_links = {}
    /\ todo = {}
    /\ article_url = NoneVal
    /\ soup = NoneVal
    /\ page = NoneVal
    /\ article_data = NoneVal
    /\ caller = "category"
    /\ retries = 0
    /\ trace = <<>>
    /\ returned = "idle"
    /\ write_ok = NoneVal
    /\ slept = 0
    /\ requested = FALSE
    /\ attempts = <<>>
    /\ written = <<>>
    /\ visited = <<>>
    /\ saveAllCalls = 0
    /\ skips = 0
    /\ result = NoneVal

\* ------------------------------------------------------------- the actions
\* one more extraction attempt recorded for url
Bump(f, url) ==
    IF url \in DOMAIN f THEN [f EXCEPT ![url] = @ + 1] ELSE (url :> 1) @@ f

\* get_page has returned and its caller has consumed the result
LeaveGetPage ==
    /\ retries' = 0
    /\ trace' = <<>>
    /\ returned' = "idle"

\* entering get_page(url) with retries = 0
CallGetPage(who) ==
    /\ caller' = who
    /\ retries' = 0
    /\ trace' = <<>>
    /\ returned' = "running"
    /\ pc' = "get"

\* scrape_all up to the category loop: makedirs, total_articles = 0
StartRun ==
    /\ pc = "start"
    /\ total_articles' = 0
    /\ pc' = "for_category"
    /\ UNCHANGED << i, scraped_urls, articles, files, combined, articles_before,
                    count, article_links, todo, article_url, soup, page,
                    article_data, caller, retries, trace, returned, write_ok,
                    slept, requested, attempts, written, visited,
                    saveAllCalls, skips, result >>

\* the next iteration of `for category_url in config.CATEGORY_URLS`:
\* articles_before is taken and scrape_category calls get_page
ForCategory ==
    /\ pc = "for_category"
    /\ HasNextCategory(i)
    /\ i' = i + 1
    /\ articles_before' = Len(articles)
    /\ visited' = Append(visited, CATEGORY_URLS[i + 1])
    /\ CallGetPage("category")
    /\ UNCHANGED << scraped_urls, articles, files, combined, total_articles,
                    count, article_links, todo, article_url, soup, page,
                    article_data, write_ok, slept, requested, attempts,
                    written, saveAllCalls, skips, result >>

\* the category loop is exhausted
EndCategories ==
    /\ pc = "for_category"
    /\ ~HasNextCategory(i)
    /\ pc' = "save_all"
    /\ UNCHANGED << i, scraped_urls, articles, files, combined, total_articles,
                    articles_before, count, article_links, todo, article_url,
                    soup, page, article_data, caller, retries, trace, returned,
                    write_ok, slept, requested, attempts, written,
                    visited, saveAllCalls, skips, result >>

\* get_page: session.get and raise_for_status; the server decides the outcome.
\* On success the response goes to the caller; on failure either the retry
\* sleep follows or None goes to the caller.
Request ==
    /\ pc = "get"
    /\ requested' = TRUE
    /\ slept' = 0
    /\ \E ok \in BOOLEAN :
        /\ trace' = Append(trace, GetEvent(ok))
        /\ IF ok
           THEN /\ returned' = "ok"
                /\ IF caller = "category"
                   THEN /\ \E anchors \in CategoryPages : soup' = Some(anchors)
                        /\ pc' = "links"
                        /\ UNCHANGED << page, article_data >>
                   ELSE /\ \E p \in ArticlePages : page' = Some(p)
                        /\ pc' = "parse"
                        /\ UNCHANGED << soup, article_data >>
           ELSE IF ShouldRetry(retries)
           THEN /\ pc' = "retry_sleep"
                /\ UNCHANGED << returned, soup, page, article_data >>
           ELSE /\ returned' = "none"
                /\ IF caller = "category"
                   THEN /\ pc' = "cat_return"
                        /\ UNCHANGED << soup, page, article_data >>
                   ELSE /\ article_data' = NoneVal
                        /\ pc' = "delay"
                        /\ UNCHANGED << soup, page >>
    /\ UNCHANGED << i, scraped_urls, articles, files, combined, total_articles,
                    articles_before, count, article_links, todo, article_url,
                    caller, retries, write_ok, attempts, written, visited,
                    saveAllCalls, skips, result >>

\* get_page: time.sleep(REQUEST_DELAY * 2), then the recursive call
RetrySleep ==
    /\ pc = "retry_sleep"
    /\ slept' = slept + REQUEST_DELAY * 2
    /\ trace' = Append(trace, SleepEvent(REQUEST_DELAY * 2))
    /\ retries' = retries + 1
    /\ pc' = "get"
    /\ UNCHANGED << i, scraped_urls, articles, files, combined, total_articles,
                    articles_before, count, article_links, todo, article_url,
                    soup, page, article_data, caller, returned, write_ok,
                    requested, attempts, written, visited,
                    saveAllCalls, skips, result >>

\* scrape_category: extract_article_links on the fetched page, count = 0
ExtractLinks ==
    /\ pc = "links"
    /\ article_links' = ExtractArticleLinks(soup[1], CATEGORY_URLS[i], scraped_urls)
    /\ todo' = article_links'
    /\ count' = 0
    /\ pc' = "loop"
    /\ LeaveGetPage
    /\ UNCHANGED << i, scraped_urls, articles, files, combined, total_articles,
                    articles_before, article_url, soup, page, article_data,
                    caller, write_ok, slept, requested, attempts, written, visited, saveAllCalls, skips,
                    result >>

\* one iteration head of `for article_url in article_links` (set order):
\* break at the cap, continue on a scraped URL, else mark it and fetch it
LoopIter ==
    /\ pc = "loop"
    /\ \E u \in todo :
        /\ todo' = todo \ {u}
        /\ IF CapReached(count, MaxArticles)
           THEN /\ pc' = "cat_return"
                /\ article_url' = NoneVal
                /\ UNCHANGED << scraped_urls, attempts, skips, caller, retries,
                                trace, returned >>
           ELSE IF u \in scraped_urls
           THEN /\ skips' = skips + 1
                /\ article_url' = Some(u)
                /\ UNCHANGED << pc, scraped_urls, attempts, caller, retries,
                                trace, returned >>
           ELSE /\ scraped_urls' = MarkScraped(scraped_urls, u)
                /\ article_url' = Some(u)
                /\ attempts' = Bump(attempts, u)
                /\ CallGetPage("article")
                /\ UNCHANGED skips
    /\ UNCHANGED << i, articles, files, combined, total_articles,
                    articles_before, count, article_links, soup, page,
                    article_data, write_ok, slept, requested, written,
                    visited, saveAllCalls, result >>

\* the for-loop runs out of candidates
LoopExit ==
    /\ pc = "loop"
    /\ todo = {}
    /\ pc' = "cat_return"
    /\ article_url' = NoneVal
    /\ UNCHANGED << i, scraped_urls, articles, files, combined, total_articles,
                    articles_before, count, article_links, todo, soup, page,
                    article_data, caller, retries, trace, returned, write_ok,
                    slept, requested, attempts, written, visited,
                    saveAllCalls, skips, result >>

\* extract_article_content after the fetch: parse, extract, validate
Parse ==
    /\ pc = "parse"
    /\ article_data' = ExtractArticleContent(article_url[1], page[1])
    /\ pc' = IF article_data' # NoneVal THEN "save" ELSE "delay"
    /\ LeaveGetPage
    /\ UNCHANGED << i, scraped_urls, articles, files, combined, total_articles,
                    articles_before, count, article_links, todo, article_url,
                    soup, page, caller, write_ok,
                    slept, requested, attempts, written, visited,
                    saveAllCalls, skips, result >>

\* save_article(article_data) and count += 1; the disk decides the write
Save ==
    /\ pc = "save"
    /\ \E ok \in BOOLEAN :
        /\ write_ok' = Some(ok)
        /\ files' = IF ok THEN files \cup {article_data[1].url} ELSE files
        /\ articles' = SaveArticle(articles, article_data[1], ok)
        /\ written' = IF ok THEN Append(written, article_data[1]) ELSE written
    /\ count' = count + 1
    /\ pc' = "delay"
    /\ UNCHANGED << i, scraped_urls, combined, total_articles, articles_before,
                    article_links, todo, article_url, soup, page, article_data,
                    caller, retries, trace, returned, slept, requested, attempts, visited, saveAllCalls, skips, result >>

\* scrape_category: time.sleep(REQUEST_DELAY) at the end of the loop body
Delay ==
    /\ pc = "delay"
    /\ slept' = slept + REQUEST_DELAY
    /\ pc' = "loop"
    /\ page' = NoneVal
    /\ article_data' = NoneVal
    /\ write_ok' = NoneVal
    /\ LeaveGetPage
    /\ article_url' = NoneVal
    /\ UNCHANGED << i, scraped_urls, articles, files, combined, total_articles,
                    articles_before, count, article_links, todo, soup, caller, requested, attempts, written, visited, saveAllCalls, skips, result >>

\* scrape_category returns; scrape_all adds the category's articles
CategoryReturn ==
    /\ pc = "cat_return"
    /\ total_articles' = total_articles + ArticlesScraped(Len(articles), articles_before)
    /\ count' = 0
    /\ article_links' = {}
    /\ todo' = {}
    /\ soup' = NoneVal
    /\ pc' = "for_category"
    /\ LeaveGetPage
    /\ UNCHANGED << i, scraped_urls, articles, files, combined, articles_before,
                    article_url, page, article_data, caller, write_ok, slept, requested, attempts,
                    written, visited, saveAllCalls, skips, result >>

\* save_all_articles: the combined file is written, or the write fails
SaveAllArticles ==
    /\ pc = "save_all"
    /\ saveAllCalls' = saveAllCalls + 1
    /\ \E ok \in BOOLEAN : combined' = IF ok THEN Some(articles) ELSE combined
    /\ pc' = "return"
    /\ UNCHANGED << i, scraped_urls, articles, files, total_articles,
                    articles_before, count, article_links, todo, article_url,
                    soup, page, article_data, caller, retries, trace, returned,
                    write_ok, slept, requested, attempts, written,
                    visited, skips, result >>

\* scrape_all: return total_articles
Return ==
    /\ pc = "return"
    /\ result' = Some(total_articles)
    /\ pc' = "done"
    /\ UNCHANGED << i, scraped_urls, articles, files, combined, total_articles,
                    articles_before, count, article_links, todo, article_url,
                    soup, page, article_data, caller, retries, trace, returned,
                    write_ok, slept, requested, attempts, written,
                    visited, saveAllCalls, skips >>

Next ==
    \/ StartRun
    \/ ForCategory
    \/ EndCategories
    \/ Request
    \/ RetrySleep
    \/ ExtractLinks
    \/ LoopIter
    \/ LoopExit
    \/ Parse
    \/ Save
    \/ Delay
    \/ CategoryReturn
    \/ SaveAllArticles
    \/ Return

Spec == Init /\ [][Next]_vars

\* the single thread keeps running: every blocking call returns (requests
\* carry a timeout, sleeps are finite)
FairSpec == Spec /\ WF_vars(Next)

\* ------------------------------------------- extract_article_links alone
\* the anchor lists extract_article_links is applied to
MaxAnchors == 3

LinkQuery == <<"?", "u", "=", "/", "sport", "/", "a2">>

\* hrefs chosen so that each test of the filter decides some of them alone
LinkHrefs ==
    { BASE_URL \o <<"/", "politik", "/", "a1">>,
      <<"/", "politik", "/", "a1">>,
      <<"a3">>,
      <<>>,
      LinkQuery,
      BASE_URL \o <<"/", "politik", "/">>,
      BASE_URL \o <<"/", "politik", "/", "a1", "/">>,
      BASE_URL \o <<"/", "x", "/", "a1">>,
      BASE_URL \o <<"/", "a1">> \o LinkQuery,
      BASE_URL \o LinkQuery,
      BASE_URL \o <<".example.org", "/", "politik", "/", "a1">>,
      <<"https://example.org", "/", "politik", "/", "a1">> }

AnchorLists == UNION { [1..n -> LinkHrefs] : n \in 0..MaxAnchors }

\* scraped-URL sets the scraper may hold when the method is called
ScrapedChoices ==
    SUBSET { BASE_URL \o <<"/", "politik", "/", "a1">>,
             BASE_URL \o <<"/", "politik", "/", "a3">> }

\* a scraper about to call extract_article_links on a fetched category page
InitLinks ==
    /\ pc = "links"
    /\ i \in 1..NumCategories
    /\ scraped_urls \in ScrapedChoices
    /\ soup \in { Some(a) : a \in AnchorLists }
    /\ articles = <<>>
    /\ files = {}
    /\ combined = NoneVal
    /\ total_articles = 0
    /\ articles_before = 0
    /\ count = 0
    /\ article_links = {}
    /\ todo = {}
    /\ article_url = NoneVal
    /\ page = NoneVal
    /\ article_data = NoneVal
    /\ caller = "category"
    /\ retries = 0
    /\ trace = <<GetEvent(TRUE)>>
    /\ returned = "ok"
    /\ write_ok = NoneVal
    /\ slept = 0
    /\ requested = TRUE
    /\ attempts = [u \in scraped_urls |-> 1]
    /\ written = <<>>
    /\ visited = SubSeq(CATEGORY_URLS, 1, i)
    /\ saveAllCalls = 0
    /\ skips = 0
    /\ result = NoneVal

NextLinks == ExtractLinks

SpecLinks == InitLinks /\ [][NextLinks]_vars

\* ------------------------------------------------------------------ claims
InCollection(url) == \E k \in DOMAIN articles : articles[k].url = url

BothNonEmpty(p) == Truthy(ExtractTitle(p)) /\ Truthy(ExtractText(p))

\* C1 as stated: after an extraction attempt on a fetched article page, the
\* record is on disk and in the collection exactly when the extracted title
\* and text are both non-empty.
C1_PersistedIffBothNonEmpty ==
    (pc = "delay" /\ page # NoneVal) =>
        ((article_url[1] \in files /\ InCollection(article_url[1]))
            <=> BothNonEmpty(page[1]))

\* C1 amended: after an extraction attempt on a fetched article page, the
\* record (with the extracted title and text) is on disk and in the collection
\* exactly when the extracted title and text are both non-empty and the file
\* write succeeded; otherwise the URL has no file and no record, and when
\* either field is empty the step after extraction writes and appends nothing.
C1_PersistedIffValidAndWritten ==
    /\ [] ((pc = "delay" /\ page # NoneVal) =>
            /\ (article_url[1] \in files /\ InCollection(article_url[1]))
                  <=> (BothNonEmpty(page[1]) /\ write_ok = Some(TRUE))
            /\ (article_url[1] \in files) <=> InCollection(article_url[1])
            /\ InCollection(article_url[1]) =>
                  articles[Len(articles)] =
                      [url |-> article_url[1],
                       title |-> ExtractTitle(page[1])[1],
                       text |-> ExtractText(page[1])[1]])
    /\ [][(pc = "parse" /\ ~BothNonEmpty(page[1])) =>
            (pc' = "delay" /\ articles' = articles /\ files' = files)]_vars

C1_Witness ==
    /\ pc = "delay"
    /\ page # NoneVal
    /\ BothNonEmpty(page[1])
    /\ write_ok = Some(TRUE)
    /\ InCollection(article_url[1])

\* the events of a get_page call whose every request fails
AllFailTrace ==
    [k \in 1..(2 * MAX_RETRIES + 1) |->
        IF k % 2 = 1 THEN GetEvent(FALSE) ELSE SleepEvent(2 * REQUEST_DELAY)]

\* C2: a get_page call whose every request fails issues MAX_RETRIES + 1
\* requests, sleeps 2 * REQUEST_DELAY before each retry and nowhere else, and
\* returns None; within a call requests and sleeps alternate, and a request
\* that succeeds is the last event of the call.
C2_RetryExactlyMaxRetries ==
    /\ returned = "none" => trace = AllFailTrace
    /\ \A k \in DOMAIN trace :
        /\ trace[k].ev = (IF k % 2 = 1 THEN "get" ELSE "sleep")
        /\ trace[k].ev = "sleep" => trace[k].secs = 2 * REQUEST_DELAY
        /\ (trace[k].ev = "get" /\ trace[k].ok) => k = Len(trace)
    /\ returned = "ok" => (trace # <<>> /\ trace[Len(trace)] = GetEvent(TRUE))
    /\ returned = "none" => pc \in {"cat_return", "delay"}

C2_Witness ==
    /\ returned = "none"
    /\ Cardinality({k \in DOMAIN trace : trace[k].ev = "get"}) = MAX_RETRIES + 1
    /\ Cardinality({k \in DOMAIN trace : trace[k].ev = "sleep"}) = MAX_RETRIES

\* C3: extraction is started at most once per article URL in a run; a URL is
\* in the scraped-URL set from the moment its extraction starts, and the set
\* only grows.
C3_AtMostOneAttemptPerUrl ==
    /\ [] (/\ DOMAIN attempts = scraped_urls
           /\ \A u \in DOMAIN attempts : attempts[u] = 1
           /\ article_url # NoneVal => article_url[1] \in scraped_urls)
    /\ [][scraped_urls \subseteq scraped_urls']_vars

\* the second category page links an article the first category attempted
C3_Witness ==
    /\ i = 2
    /\ pc = "loop"
    /\ \E k \in DOMAIN soup[1] :
         /\ UrlJoin(CATEGORY_URLS[i], soup[1][k]) \in scraped_urls
         /\ UrlJoin(CATEGORY_URLS[i], soup[1][k]) \notin article_links
    /\ Len(articles) < Cardinality(scraped_urls)

\* C4: the collection is exactly the list of records whose file write
\* succeeded, in order; a failed write leaves it unchanged and the run goes
\* on; the combined file holds that list as it was when save_all ran.
C4_CollectionIsSuccessfulWrites ==
    /\ [] (/\ articles = written
           /\ files = {written[k].url : k \in DOMAIN written}
           /\ combined # NoneVal =>
                (combined[1] = written /\ Len(combined[1]) = Cardinality(files)))
    /\ [][(pc = "save" /\ write_ok' = Some(FALSE)) =>
            (articles' = articles /\ pc' = "delay")]_vars

C4_Witness ==
    /\ pc = "done"
    /\ combined # NoneVal
    /\ Len(combined[1]) = 1
    /\ Cardinality(scraped_urls) > 1

\* the anchors of the fetched page, resolved against the page URL
ResolvedAnchors == { UrlJoin(CATEGORY_URLS[i], soup[1][k]) : k \in DOMAIN soup[1] }

SlashCount(s) == Cardinality({k \in DOMAIN s : s[k] = "/"})

SectionNames == {"article", "politik", "wirtschaft", "sport", "kultur", "wissenschaft"}

\* the five conditions of the link filter, stated on the URL itself; a path
\* of n slash-separated pieces (the empty piece before the leading slash
\* counted, as split('/') counts it) holds n - 1 slashes
FiveConditions(url, scraped) ==
    /\ \E k \in 1..(Len(url) - 2) :
         url[k] = "/" /\ url[k + 1] \in SectionNames /\ url[k + 2] = "/"
    /\ url # <<>> /\ url[1] = "https://www.welt.de"
    /\ url \notin scraped
    /\ SlashCount(UrlPath(url)) + 1 >= 3
    /\ url[Len(url)] # "/"

C6_RunNeverAborts ==
    /\ <>(pc = "done")
    /\ [] (/\ visited = SubSeq(CATEGORY_URLS, 1, i)
           /\ i <= Len(CATEGORY_URLS)
           /\ saveAllCalls = (IF pc \in {"return", "done"} THEN 1 ELSE 0)
           /\ pc \in {"save_all", "return", "done"} => visited = CATEGORY_URLS
           /\ pc = "done" => result # NoneVal
           /\ (pc = "cat_return" /\ returned = "none") =>
                (article_links = {} /\ count = 0 /\ articles_before = Len(articles)))
    /\ [][(pc = "cat_return" /\ returned = "none") =>
            (pc' = "for_category" /\ attempts' = attempts)]_vars

\* a finished run in which articles were attempted, none was persisted and
\* the combined file could not be written
C6_Witness ==
    /\ pc = "done"
    /\ saveAllCalls = 1
    /\ scraped_urls # {}
    /\ articles = <<>>
    /\ combined = NoneVal

\* C7: while a category is scraped, the records persisted from it number at
\* most count, and count at most the cap; once count has reached the cap no
\* URL is marked as scraped and no request is started before the category
\* ends; the candidates not iterated are not marked.
C7_PerCategoryCap ==
    /\ [] (/\ count <= MaxArticles
           /\ pc \in {"loop", "parse", "save", "delay", "cat_return"} =>
                Len(articles) - articles_before <= count
           /\ todo \cap scraped_urls = {})
    /\ [][count >= MaxArticles =>
            (scraped_urls' = scraped_urls /\ pc' \notin {"get", "parse", "save"})]_vars

\* the cap stopped a category that still had an unattempted candidate
C7_Witness ==
    /\ pc = "cat_return"
    /\ count = MaxArticles
    /\ article_links \ scraped_urls # {}

\* C8: between categories the running total equals the size of the
\* collection, so the value scrape_all returns is the number of persisted
\* records, which is also the length of the combined array when it is
\* written; extracted articles whose write failed are not in it.
C8_TotalEqualsPersisted ==
    /\ pc \in {"for_category", "save_all", "return", "done"} =>
         total_articles = Len(articles)
    /\ result # NoneVal =>
         /\ result[1] = Len(articles)
         /\ result[1] = Cardinality(files)
         /\ combined # NoneVal => result[1] = Len(combined[1])

\* a run returned a total below the number of attempted URLs
C8_Witness ==
    /\ pc = "done"
    /\ result # NoneVal
    /\ result[1] >= 1
    /\ result[1] < Cardinality(scraped_urls)
    /\ combined # NoneVal

\* C9 as stated: every GET after the first is preceded, since the previous
\* GET, by a sleep of at least REQUEST_DELAY seconds.
C9_DelayBetweenAnyTwoRequests ==
    (pc = "get" /\ requested) => slept >= REQUEST_DELAY

\* C10: the `article_url in self.scraped_urls` branch of scrape_category is
\* never taken: no candidate still to be iterated is in the scraped-URL set,
\* and every candidate iterated before the break has been attempted.
C10_SkipBranchDead ==
    /\ skips = 0
    /\ pc = "loop" => todo \cap scraped_urls = {}
    /\ pc # "cat_return" => (article_links \ todo) \subseteq scraped_urls

\* in the second category a link attempted in the first one was filtered out
\* and another candidate has been attempted
C10_Witness ==
    /\ i = 2
    /\ pc = "delay"
    /\ \E u \in ResolvedAnchors : u \in scraped_urls /\ u \notin article_links
    /\ article_url[1] \in article_links

====
